---- MODULE Spec2Model ----
(***************************************************************************)
(* A model of github.com/xoba/chat: the session loop Streaming, the        *)
(* generic retry executor, the capacity multiplexer multiInterface and the *)
(* two provider backends (OpenAI-style complete, Bedrock/Claude).          *)
(*                                                                         *)
(* Text is a sequence of one-character strings.  Durations are counted in  *)
(* seconds (the code's 3*time.Second is 3).                                *)
(***************************************************************************)
EXTENDS Integers, Sequences, FiniteSets, TLC

VARIABLES
    \* ---- retry (locals of the generic function retry) ----
    maxTries,   \* parameter maxTries
    tries,      \* local tries
    dt,         \* parameter dt, doubled after every sleep
    slept,      \* total duration passed to time.Sleep so far
    sleeps,     \* the durations passed to time.Sleep, in order
    calls,      \* number of invocations of f so far
    ret,        \* what retry returned last (NoRet while it is running)
    outcome,    \* what the last call of f returned (NoRet before the first)
    \* ---- the operation handed to retry in the stand-alone retry runs ----
    failures,   \* f fails on its first `failures` calls (Forever: on all)
    d0,         \* the initial delay retry was called with
    rpc,        \* position inside retry: "call", "sleep", "done"
    \* ---- the capacity multiplexer (multi.go) ----
    mfirst,     \* the backend given as firstSmaller
    msecond,    \* the backend given as secondLarger
    multi,      \* what NewMultiInterface returned (NoRet before the call)
    hist,       \* the history of the last call, as its cost per leaf backend
    mret,       \* what the last call on the multiplexer returned
    mpc,        \* "new", "inner" (the inner multiplexer of a nesting is
                \* built), "ready" (constructed), "rejected"
    mprobe,     \* what the last MaxTokens or TokenEstimate call on the
                \* multiplexer returned (NoRet: the last call was Streaming)
    leaves,     \* nested multiplexers: the backends small, medium, large
    nesting,    \* "left": multi(multi(small, medium), large),
                \* "right": multi(small, multi(medium, large))
    inner,      \* what NewMultiInterface returned for the inner pair
    \* ---- one Streaming call on a provider backend (gpt4 / claude) ----
    bkind,      \* "gpt4" (gpt4interface) or "claude" (claudeInterface)
    rolesOK,    \* whether every message of the history has a known role
    bpc,        \* "start", "loop" (receiving events), "done"
    opened,     \* the provider stream was opened
    closed,     \* the provider stream was closed (resp.Close / r.Close)
    received,   \* number of events taken from the provider stream
    lastEvent,  \* the last event taken from the provider stream
    sink,       \* text written to the caller's io.Writer, in order
    content,    \* the buffer the call accumulates (q / content)
    first,      \* claude: the local `first`
    finishReason, \* gpt4: complete's local finishReason
    bret,       \* what the call returned (NoRet while it is running)
    \* ---- the session loop Streaming (src/unnamed/part_004) ----
    prompt,     \* config.Prompt
    print,      \* config.Print
    files,      \* promptFiles: a sequence of [meta, body, readErr]
    messages,   \* the history: a sequence of [Role, Content]
    init,       \* the local `init`
    pc,         \* "setup", "top", "call", "inflight", "sleep", "switch",
                \* "read", "closed" (returned nil), "failed" (returned an error)
    serr,       \* the error Streaming returned (NoRet: none)
    inflight,   \* number of backend calls that have started and not returned
    echoed,     \* number of initial messages printed because of config.Print
    prompts,    \* number of "> " prompts printed
    reads,      \* number of reader.ReadString calls
    turns,      \* number of calls of retry (dispatches)
    dispatched, \* the history as it was when the last dispatch started
    inputLog,   \* what the ReadString calls returned so far, in order
    \* ---- the rate-limited session loop (src/chat.go) ----
    waits,      \* number of rpm.Wait calls that returned nil
    completions, \* number of invocations of complete
    \* ---- one TokenEstimate call on a provider backend ----
    ekind,      \* the backend: "claude", "gpt4" (part_002), "gpt4modes" (part_001)
    emsgs,      \* the history: a sequence of [Role, words], words being
                \* the number of words (tokens) of the content
    encOK,      \* whether tiktoken.EncodingForModel succeeds
    eret,       \* what TokenEstimate returned (NoRet before the call)
    \* ---- successive Streaming calls on one multiplexer ----
    mprev       \* what the Streaming call before the last one returned

retryVars == <<maxTries, tries, dt, slept, sleeps, calls, ret, outcome>>
opVars    == <<failures, d0, rpc>>
multiVars == <<mfirst, msecond, multi, hist, mret, mpc, mprobe, leaves,
               nesting, inner>>
backendVars == <<bkind, rolesOK, bpc, opened, closed, received, lastEvent,
                 sink, content, first, finishReason, bret>>
sessVars  == <<prompt, print, files, messages, init, pc, serr, inflight,
               echoed, prompts, reads, turns, dispatched, inputLog>>
limiterVars == <<waits, completions>>
estimateVars == <<ekind, emsgs, encOK, eret>>
attemptVars == <<mprev>>
vars      == <<retryVars, opVars, multiVars, backendVars, sessVars,
               limiterVars, estimateVars, attemptVars>>

\* what the actions of one component leave alone
notRetry   == <<multiVars, backendVars, sessVars, limiterVars, estimateVars, attemptVars>>
notMulti   == <<retryVars, opVars, backendVars, sessVars, limiterVars,
                estimateVars, attemptVars>>
notBackend == <<retryVars, opVars, multiVars, sessVars, limiterVars,
                estimateVars, attemptVars>>

----------------------------------------------------------------------------
(* Bounds of the model *)

MaxN == 4          \* largest maxTries tried in the stand-alone retry runs
MaxDelay == 3      \* largest initial delay tried
MaxCalls == MaxN + 2   \* cap on invocations of f (retry can loop forever)
Spread == 1        \* estimates tried lie within Spread of a capacity threshold
MaxEvents == 2     \* most events one provider stream delivers
MaxFiles == 1      \* most prompt files given to the session
MaxReads == 3      \* most lines (or end of input) the session reads
MaxTurns == 2      \* most dispatches of one session
MaxSetupFiles == 2 \* most prompt files in the runs of the initialization alone
MaxMsgs == 3       \* longest history given to TokenEstimate

Forever == MaxCalls + 1   \* `failures` value of an operation that never succeeds
NoRet == [kind |-> "none"]

\* the variables of a component that a specification does not exercise
RetryIdle ==
    /\ maxTries = 0 /\ tries = 0 /\ dt = 0 /\ slept = 0 /\ sleeps = <<>>
    /\ calls = 0 /\ ret = NoRet /\ outcome = NoRet
OpIdle ==
    /\ failures = 0 /\ d0 = 0 /\ rpc = "idle"
MultiIdle ==
    /\ mfirst = NoRet /\ msecond = NoRet /\ multi = NoRet
    /\ hist = <<>> /\ mret = NoRet /\ mpc = "idle"
    /\ mprobe = NoRet /\ leaves = <<>> /\ nesting = "none" /\ inner = NoRet
BackendIdle ==
    /\ bkind = "none" /\ rolesOK = TRUE /\ bpc = "idle"
    /\ opened = FALSE /\ closed = FALSE /\ received = 0 /\ lastEvent = NoRet
    /\ sink = <<>> /\ content = <<>> /\ first = TRUE /\ finishReason = ""
    /\ bret = NoRet
SessionIdle ==
    /\ prompt = <<>> /\ print = FALSE /\ files = <<>> /\ messages = <<>>
    /\ init = FALSE /\ pc = "idle" /\ serr = NoRet /\ inflight = 0
    /\ echoed = 0 /\ prompts = 0 /\ reads = 0 /\ turns = 0
    /\ dispatched = <<>> /\ inputLog = <<>>
LimiterIdle ==
    /\ waits = 0 /\ completions = 0
AttemptIdle ==
    mprev = NoRet
EstimateIdle ==
    /\ ekind = "none" /\ emsgs = <<>> /\ encOK = TRUE /\ eret = NoRet

----------------------------------------------------------------------------
(* retry, src/unnamed/part_004:148-165 *)

RECURSIVE Pow2(_)
Pow2(n) == IF n <= 0 THEN 1 ELSE 2 * Pow2(n - 1)

\* mutant: gives up one failure too late
retryGivesUp_late(t, max) ==
    t = max + 1

\* `if tries++; tries == maxTries`: t is the value after the increment
retryGivesUp(t, max) ==
    t = max

\* mutant: constant delay, no doubling
retryBackoff_const(d) ==
    d

\* `dt *= 2`
retryBackoff(d) ==
    2 * d

\* the error retry returns: fmt.Errorf("%w after %d tries, %v", err, tries, elapsed)
retryError(err, t, elapsed) ==
    [kind |-> "error", wrapped |-> err, tries |-> t, elapsed |-> elapsed]

retryOk(r) ==
    [kind |-> "ok", value |-> r]

\* f of the stand-alone runs: call number c fails (with an error that names
\* the call) on the first `failures` calls and succeeds afterwards
opFails(c) ==
    failures = Forever \/ c <= failures

RetryInit ==
    /\ maxTries \in -1..MaxN
    /\ d0 \in 0..MaxDelay
    /\ failures \in {Forever} \cup (0..MaxN)
    /\ tries = 0
    /\ dt = d0
    /\ slept = 0
    /\ sleeps = <<>>
    /\ calls = 0
    /\ ret = NoRet
    /\ outcome = NoRet
    /\ rpc = "call"
    /\ MultiIdle
    /\ BackendIdle
    /\ SessionIdle
    /\ LimiterIdle
    /\ EstimateIdle
    /\ AttemptIdle

\* one pass of the loop body up to the sleep: r, err := f() and the branches
RetryCall ==
    /\ rpc = "call"
    /\ calls < MaxCalls
    /\ calls' = calls + 1
    /\ outcome' = [kind |-> IF opFails(calls + 1) THEN "error" ELSE "ok",
                   call |-> calls + 1]
    /\ IF opFails(calls + 1)
         THEN /\ tries' = tries + 1
              /\ IF retryGivesUp(tries + 1, maxTries)
                   THEN /\ ret' = retryError(calls + 1, tries + 1, slept)
                        /\ rpc' = "done"
                   ELSE /\ ret' = ret
                        /\ rpc' = "sleep"
         ELSE /\ tries' = tries
              /\ ret' = retryOk(calls + 1)
              /\ rpc' = "done"
    /\ UNCHANGED <<maxTries, dt, slept, sleeps, failures, d0, notRetry>>

\* time.Sleep(dt); dt *= 2
RetrySleep ==
    /\ rpc = "sleep"
    /\ slept' = slept + dt
    /\ sleeps' = Append(sleeps, dt)
    /\ dt' = retryBackoff(dt)
    /\ rpc' = "call"
    /\ UNCHANGED <<maxTries, tries, calls, ret, outcome, failures, d0, notRetry>>

RetryNext ==
    \/ RetryCall
    \/ RetrySleep

SpecRetry == RetryInit /\ [][RetryNext]_vars

----------------------------------------------------------------------------
(* Claims about retry, checked under SpecRetry *)

\* the delays d, 2d, 4d, ... of the first n sleeps
Delays(n) == [i \in 1..n |-> d0 * Pow2(i - 1)]

\* f fails on each of its first maxTries calls
AlwaysFails == failures = Forever \/ failures >= maxTries

\* C4: with maxTries = N >= 1 and an operation that fails on every call,
\* retry invokes it exactly N times and then returns an error that wraps the
\* error of the N-th call and carries the count N; it sleeps N-1 times, with
\* delays d, 2d, ..., 2^(N-2) d, and not after the N-th failure.
C4_RetryExhaustion ==
    (maxTries >= 1 /\ AlwaysFails) =>
        /\ calls <= maxTries
        /\ (calls = maxTries => rpc = "done")
        /\ (rpc = "done" =>
              /\ calls = maxTries
              /\ ret.kind = "error"
              /\ ret.wrapped = maxTries
              /\ ret.tries = maxTries
              /\ sleeps = Delays(maxTries - 1)
              /\ slept = d0 * (Pow2(maxTries - 1) - 1)
              /\ ret.elapsed = slept)

C4_Witness ==
    /\ rpc = "done"
    /\ maxTries = 3
    /\ d0 = 3
    /\ failures = Forever
    /\ ret.kind = "error"
    /\ calls = 3

\* C28: retry terminates for every maximum attempt count, 0 and negative
\* values included: with an operation that fails on every call it has
\* returned an error once the operation was invoked as often as the runs
\* allow (more often than the largest maxTries).
C28_RetryTerminates ==
    (failures = Forever /\ calls = MaxCalls) =>
        (rpc = "done" /\ ret.kind = "error")

\* C5: an operation that fails exactly k < N times and then succeeds makes
\* retry return the successful result after exactly k+1 invocations, having
\* slept k times with delays d, 2d, ..., 2^(k-1) d and not after the success.
C5_RetryRecovery ==
    (failures >= 0 /\ failures < maxTries) =>
        /\ calls <= failures + 1
        /\ (calls = failures + 1 => rpc = "done")
        /\ (rpc = "done" =>
              /\ calls = failures + 1
              /\ ret = retryOk(failures + 1)
              /\ tries = failures
              /\ sleeps = Delays(failures)
              /\ slept = d0 * (Pow2(failures) - 1))

C5_Witness ==
    /\ rpc = "done"
    /\ maxTries = 4
    /\ failures = 2
    /\ d0 = 3
    /\ ret.kind = "ok"
    /\ sleeps = <<3, 6>>

----------------------------------------------------------------------------
(* The capacity multiplexer, src/multi.go *)

\* `const response = 1000`: the margin reserved for the reply
response == 1000

\* A backend is a leaf [kind, id, max] or a multiplexer [kind, first, second].
\* A history is given by what it costs on each leaf backend: hist[id] is the
\* value of that backend's TokenEstimate, or EstErr (no token count) when the
\* estimate returns an error.
EstErr == -1

Leaf(id, max) == [kind |-> "leaf", id |-> id, max |-> max]

\* multiInterface.MaxTokens, src/multi.go:20-22
RECURSIVE MaxTokens(_)

\* mutant: the multiplexer reports the capacity of its larger backend
MaxTokens_second(i) ==
    IF i.kind = "leaf" THEN i.max ELSE MaxTokens(i.second)

MaxTokens(i) ==
    IF i.kind = "leaf" THEN i.max ELSE MaxTokens(i.first)

\* multiInterface.TokenEstimate, src/multi.go:28-30; the log lists the calls
\* made on leaf backends
RECURSIVE TokenEstimate(_, _)

\* mutant: the multiplexer estimates with its larger backend
TokenEstimate_second(i, h) ==
    IF i.kind = "leaf"
      THEN [err |-> h[i.id] = EstErr,
            n   |-> IF h[i.id] = EstErr THEN 0 ELSE h[i.id],
            log |-> << <<"TokenEstimate", i.id>> >>]
      ELSE TokenEstimate(i.second, h)

TokenEstimate(i, h) ==
    IF i.kind = "leaf"
      THEN [err |-> h[i.id] = EstErr,
            n   |-> IF h[i.id] = EstErr THEN 0 ELSE h[i.id],
            log |-> << <<"TokenEstimate", i.id>> >>]
      ELSE TokenEstimate(i.first, h)

\* mutant: a history that exactly fills the capacity counts as over
overCapacity_ge(n, max) ==
    n + response >= max

\* `return n+response > max, n, nil`, src/multi.go:38-40
overCapacity(n, max) ==
    n + response > max

\* mutant: a failed estimate counts as an estimate of 0
over_swallow(i, h) ==
    LET e == TokenEstimate(i, h)
    IN  [err  |-> FALSE,
         over |-> IF e.err THEN FALSE ELSE overCapacity(e.n, MaxTokens(i)),
         n    |-> e.n,
         log  |-> e.log]

\* mutant: the estimate of the previous call is kept and used again
over_cached(i, h) ==
    LET e == TokenEstimate(i, IF mret = NoRet THEN h ELSE hist)
    IN  [err  |-> e.err,
         over |-> IF e.err THEN FALSE ELSE overCapacity(e.n, MaxTokens(i)),
         n    |-> e.n,
         log  |-> e.log]

\* the closure `over`, src/multi.go:33-41
over(i, h) ==
    LET e == TokenEstimate(i, h)
    IN  [err  |-> e.err,
         over |-> IF e.err THEN FALSE ELSE overCapacity(e.n, MaxTokens(i)),
         n    |-> e.n,
         log  |-> e.log]

\* mutant: the capacity check of the second backend is live
tooBigForEither_live(secondOver) ==
    secondOver

\* `if false && secondOver`, src/multi.go:51
tooBigForEither(secondOver) ==
    FALSE /\ secondOver

\* multiInterface.Streaming, src/multi.go:32-57.  The result names the leaf
\* backend whose Streaming was called (target), or is the estimation error
\* ("error") or the error of src/multi.go:52 ("too big").
RECURSIVE Streaming(_, _)
Streaming(i, h) ==
    IF i.kind = "leaf"
      THEN [kind |-> "ok", target |-> i.id, log |-> << <<"Streaming", i.id>> >>]
      ELSE LET firstOver == over(i.first, h)
           IN  IF firstOver.err
                 THEN [kind |-> "error", target |-> "none", log |-> firstOver.log]
               ELSE IF firstOver.over
                 THEN LET secondOver == over(i.second, h)
                      IN  IF secondOver.err
                            THEN [kind |-> "error", target |-> "none",
                                  log |-> firstOver.log \o secondOver.log]
                          ELSE IF tooBigForEither(secondOver.over)
                            THEN [kind |-> "too big", target |-> "none",
                                  log |-> firstOver.log \o secondOver.log]
                          ELSE LET r == Streaming(i.second, h)
                               IN  [r EXCEPT !.log =
                                      firstOver.log \o secondOver.log \o r.log]
               ELSE LET r == Streaming(i.first, h)
                    IN  [r EXCEPT !.log = firstOver.log \o r.log]

\* mutant: equal capacities are accepted
newMultiRejects_gt(a, b) ==
    MaxTokens(a) > MaxTokens(b)

\* `if firstSmaller.MaxTokens() >= secondLarger.MaxTokens()`, src/multi.go:10
newMultiRejects(a, b) ==
    MaxTokens(a) >= MaxTokens(b)

\* NewMultiInterface, src/multi.go:9-14
NewMultiInterface(a, b) ==
    IF newMultiRejects(a, b)
      THEN [kind |-> "error"]
      ELSE [kind |-> "ok", iface |-> [kind |-> "multi", first |-> a, second |-> b]]

\* capacities tried: 8000 and 128000 (the documented pair), 8*1024 and
\* 100*1024 (gpt4interface.MaxTokens and claudeInterface.MaxTokens)
Caps == {8000, 8 * 1024, 100 * 1024, 128000}

\* estimates tried: around every threshold max - response
Estimates == {c - response + k : c \in Caps, k \in (0 - Spread)..Spread}

Histories == [{"first", "second"} -> Estimates \cup {EstErr}]

MultiInit ==
    /\ mfirst \in {Leaf("first", c) : c \in Caps}
    /\ msecond \in {Leaf("second", c) : c \in Caps}
    /\ multi = NoRet
    /\ hist = <<>>
    /\ mret = NoRet
    /\ mpc = "new"
    /\ mprobe = NoRet
    /\ leaves = <<>>
    /\ nesting = "none"
    /\ inner = NoRet
    /\ RetryIdle
    /\ OpIdle
    /\ BackendIdle
    /\ SessionIdle
    /\ LimiterIdle
    /\ EstimateIdle
    /\ AttemptIdle

\* multi, err := NewMultiInterface(first, second)
NewMulti ==
    /\ mpc = "new"
    /\ multi' = NewMultiInterface(mfirst, msecond)
    /\ mpc' = IF multi'.kind = "ok" THEN "ready" ELSE "rejected"
    /\ UNCHANGED <<mfirst, msecond, hist, mret, mprobe, leaves, nesting, inner,
                   notMulti>>

\* multi.Streaming(messages, stream), for any history
MultiStreaming ==
    /\ mpc = "ready"
    /\ \E h \in Histories :
         /\ hist' = h
         /\ mret' = Streaming(multi.iface, h)
    /\ mprobe' = NoRet
    /\ UNCHANGED <<mfirst, msecond, multi, mpc, leaves, nesting, inner,
                   notMulti>>

\* multi.MaxTokens()
MultiMaxTokens ==
    /\ mpc = "ready"
    /\ mprobe' = [call |-> "MaxTokens", value |-> MaxTokens(multi.iface)]
    /\ mret' = NoRet
    /\ UNCHANGED <<mfirst, msecond, multi, hist, mpc, leaves, nesting, inner,
                   notMulti>>

\* multi.TokenEstimate(messages), for any history
MultiTokenEstimate ==
    /\ mpc = "ready"
    /\ \E h \in Histories :
         /\ hist' = h
         /\ mprobe' = [call |-> "TokenEstimate",
                       result |-> TokenEstimate(multi.iface, h)]
    /\ mret' = NoRet
    /\ UNCHANGED <<mfirst, msecond, multi, mpc, leaves, nesting, inner,
                   notMulti>>

MultiNext ==
    \/ NewMulti
    \/ MultiStreaming
    \/ MultiMaxTokens
    \/ MultiTokenEstimate

SpecMulti == MultiInit /\ [][MultiNext]_vars

\* Successive Streaming calls on one multiplexer, as the session makes them:
\* every attempt of retry calls config.Streaming(messages, os.Stdout)
\* (part_004:112-114), and the history differs from turn to turn.  Both
\* backends estimate the same messages: second's estimate fails or agrees
\* with first's.
AttemptHistories ==
    {h \in Histories : h["second"] \in {EstErr, h["first"]}}

\* config.Streaming(messages, os.Stdout) on the multiplexer, once more
AttemptStreaming ==
    /\ mpc = "ready"
    /\ \E h \in AttemptHistories :
         /\ hist' = h
         /\ mret' = Streaming(multi.iface, h)
    /\ mprev' = mret
    /\ mprobe' = NoRet
    /\ UNCHANGED <<mfirst, msecond, multi, mpc, leaves, nesting, inner,
                   retryVars, opVars, backendVars, sessVars, limiterVars,
                   estimateVars>>

AttemptsNext ==
    \/ NewMulti
    \/ AttemptStreaming

SpecAttempts == MultiInit /\ [][AttemptsNext]_vars

----------------------------------------------------------------------------
(* Claims about the multiplexer, checked under SpecMulti *)

\* C2: Streaming routes by first's estimate with the margin 1000: a call that
\* is dispatched goes to second when first's estimate + 1000 > first's
\* capacity and to first otherwise; a history within the margin (estimate +
\* 1000 = capacity included) is always dispatched to first.
C2_Routing ==
    (mret # NoRet /\ hist["first"] # EstErr) =>
        LET e == hist["first"]
        IN  /\ (e + 1000 <= mfirst.max =>
                  mret.kind = "ok" /\ mret.target = "first")
            /\ (e + 1000 > mfirst.max /\ hist["second"] # EstErr =>
                  mret.kind = "ok" /\ mret.target = "second")
            /\ (mret.kind = "ok" =>
                  mret.target = IF e + 1000 > mfirst.max THEN "second" ELSE "first")

\* capacities 8000/128000: 6999 stays on first, as does 7000
C2_Witness ==
    /\ mret # NoRet
    /\ mfirst.max = 8000 /\ msecond.max = 128000
    /\ hist["first"] = 7000
    /\ mret.target = "first"

\* C3: NewMultiInterface succeeds iff first.MaxTokens() < second.MaxTokens();
\* otherwise (equality included) it returns an error and no multiplexer.
C3_Construction ==
    mpc # "new" =>
        /\ (multi.kind = "ok" <=> mfirst.max < msecond.max)
        /\ (multi.kind = "ok" =>
              multi.iface = [kind |-> "multi", first |-> mfirst, second |-> msecond])
        /\ (mfirst.max >= msecond.max =>
              multi = [kind |-> "error"] /\ mpc = "rejected")

\* equal capacities are rejected
C3_Witness ==
    /\ mpc = "rejected"
    /\ mfirst.max = msecond.max
    /\ multi.kind = "error"

\* the calls of Streaming on a backend that the last call on the multiplexer
\* made
StreamingCalls ==
    {k \in 1..Len(mret.log) : mret.log[k][1] = "Streaming"}

\* C31: one Streaming call on the multiplexer calls Streaming on at most one
\* backend, never on both; when first.TokenEstimate fails, or first is over
\* capacity and second.TokenEstimate fails, it returns that error and calls
\* Streaming on neither backend.
C31_AtMostOneBackend ==
    mret # NoRet =>
        /\ Cardinality(StreamingCalls) <= 1
        /\ (mret.kind = "ok") = (Cardinality(StreamingCalls) = 1)
        /\ hist["first"] = EstErr =>
              /\ mret.kind = "error"
              /\ StreamingCalls = {}
              /\ mret.log = << <<"TokenEstimate", "first">> >>
        /\ (/\ hist["first"] # EstErr
            /\ hist["first"] + 1000 > mfirst.max
            /\ hist["second"] = EstErr) =>
              /\ mret.kind = "error"
              /\ StreamingCalls = {}
              /\ mret.log = << <<"TokenEstimate", "first">>,
                               <<"TokenEstimate", "second">> >>

\* first is over capacity and second cannot estimate: no backend streams
C31_Witness ==
    /\ mret # NoRet
    /\ hist["first"] # EstErr
    /\ hist["first"] + 1000 > mfirst.max
    /\ hist["second"] = EstErr
    /\ mret.kind = "error"
    /\ Len(mret.log) = 2

\* C13: when first is over capacity the call is dispatched to second
\* whether or not second's estimate + 1000 exceeds second's capacity, and
\* Streaming of the multiplexer never returns a capacity error of its own:
\* its only own errors are failed estimates.
C13_NoHeadroomCheck ==
    mret # NoRet =>
        /\ mret.kind \in {"ok", "error"}
        /\ (mret.kind = "error" =>
              \/ hist["first"] = EstErr
              \/ hist["second"] = EstErr)
        /\ (/\ hist["first"] # EstErr
            /\ hist["first"] + 1000 > mfirst.max
            /\ hist["second"] # EstErr) =>
              /\ mret.kind = "ok"
              /\ mret.target = "second"
              /\ mret.log = << <<"TokenEstimate", "first">>,
                               <<"TokenEstimate", "second">>,
                               <<"Streaming", "second">> >>

\* a history that fits neither backend was dispatched to second
C13_Witness ==
    /\ mret # NoRet
    /\ hist["first"] # EstErr
    /\ hist["first"] + 1000 > mfirst.max
    /\ hist["second"] # EstErr
    /\ hist["second"] + 1000 > msecond.max
    /\ mret.kind = "ok"
    /\ mret.target = "second"

----------------------------------------------------------------------------
(* Nested multiplexers: NewMultiInterface applied to a multiplexer and a    *)
(* third backend, src/multi.go                                              *)

LadderIds == {"small", "medium", "large"}

\* estimates tried for a backend: around its own threshold, or an error
Near(max) == {max - response + k : k \in (0 - Spread)..Spread} \cup {EstErr}

LadderHistories(ls) ==
    {[small |-> a, medium |-> b, large |-> c] :
        a \in Near(ls["small"].max), b \in Near(ls["medium"].max),
        c \in Near(ls["large"].max)}

LadderInit ==
    /\ leaves \in {[id \in LadderIds |-> Leaf(id, c[id])] :
                      c \in [LadderIds -> Caps]}
    /\ nesting = "none"
    /\ inner = NoRet
    /\ mfirst = NoRet
    /\ msecond = NoRet
    /\ multi = NoRet
    /\ hist = <<>>
    /\ mret = NoRet
    /\ mprobe = NoRet
    /\ mpc = "new"
    /\ RetryIdle
    /\ OpIdle
    /\ BackendIdle
    /\ SessionIdle
    /\ LimiterIdle
    /\ EstimateIdle
    /\ AttemptIdle

\* the inner multiplexer: NewMultiInterface(small, medium) or
\* NewMultiInterface(medium, large)
LadderInner ==
    /\ mpc = "new"
    /\ \E n \in {"left", "right"} :
         /\ nesting' = n
         /\ inner' = IF n = "left"
                       THEN NewMultiInterface(leaves["small"], leaves["medium"])
                       ELSE NewMultiInterface(leaves["medium"], leaves["large"])
    /\ mpc' = IF inner'.kind = "ok" THEN "inner" ELSE "rejected"
    /\ UNCHANGED <<mfirst, msecond, multi, hist, mret, mprobe, leaves, notMulti>>

\* the outer multiplexer: NewMultiInterface(inner, large) or
\* NewMultiInterface(small, inner)
LadderOuter ==
    /\ mpc = "inner"
    /\ mfirst' = IF nesting = "left" THEN inner.iface ELSE leaves["small"]
    /\ msecond' = IF nesting = "left" THEN leaves["large"] ELSE inner.iface
    /\ multi' = NewMultiInterface(mfirst', msecond')
    /\ mpc' = IF multi'.kind = "ok" THEN "ready" ELSE "rejected"
    /\ UNCHANGED <<hist, mret, mprobe, leaves, nesting, inner, notMulti>>

\* Streaming on the outer multiplexer, for any history
LadderStreaming ==
    /\ mpc = "ready"
    /\ \E h \in LadderHistories(leaves) :
         /\ hist' = h
         /\ mret' = Streaming(multi.iface, h)
    /\ UNCHANGED <<mfirst, msecond, multi, mpc, mprobe, leaves, nesting, inner,
                   notMulti>>

LadderNext ==
    \/ LadderInner
    \/ LadderOuter
    \/ LadderStreaming

SpecLadder == LadderInit /\ [][LadderNext]_vars

----------------------------------------------------------------------------
(* Claims about nested multiplexers, checked under SpecLadder *)

\* small < medium < large
Increasing ==
    /\ leaves["small"].max < leaves["medium"].max
    /\ leaves["medium"].max < leaves["large"].max

\* the estimates of all three backends succeed
AllEstimated == \A id \in LadderIds : hist[id] # EstErr

\* the backend's own estimate plus the margin fits its capacity
Fits(id) == hist[id] + 1000 <= leaves[id].max

\* the smallest backend that fits, or large when none does
LadderTarget ==
    IF Fits("small") THEN "small"
    ELSE IF Fits("medium") THEN "medium"
    ELSE "large"

\* C14 as stated: for small < medium < large both nestings are accepted and
\* every Streaming call is dispatched to the smallest backend whose estimate
\* plus 1000 fits its capacity, or to large when none fits.
C14_Original ==
    /\ (Increasing /\ mpc \notin {"new", "inner"}) => mpc = "ready"
    /\ (Increasing /\ mret # NoRet /\ AllEstimated) =>
          (mret.kind = "ok" /\ mret.target = LadderTarget)

\* C14 amended: for small < medium < large both nestings are accepted;
\* multi(small, multi(medium, large)) dispatches every call to the smallest
\* backend that fits, or to large when none fits; multi(multi(small, medium),
\* large) dispatches to small when small fits and to large otherwise, never
\* to medium.
C14_RightNestedLadder ==
    /\ (Increasing /\ mpc \notin {"new", "inner"}) => mpc = "ready"
    /\ (Increasing /\ mret # NoRet /\ AllEstimated /\ nesting = "right") =>
          (mret.kind = "ok" /\ mret.target = LadderTarget)
    /\ (Increasing /\ mret # NoRet /\ AllEstimated /\ nesting = "left") =>
          /\ mret.kind = "ok"
          /\ mret.target = IF Fits("small") THEN "small" ELSE "large"
    /\ (Increasing /\ mret # NoRet /\ mret.kind = "ok" /\ nesting = "left") =>
          mret.target # "medium"

\* medium is reached in the right nesting
C14_Witness ==
    /\ Increasing
    /\ nesting = "right"
    /\ mret # NoRet
    /\ AllEstimated
    /\ ~Fits("small")
    /\ Fits("medium")
    /\ mret.kind = "ok"
    /\ mret.target = "medium"

----------------------------------------------------------------------------
(* Claims about the multiplexer's capability, checked under SpecMulti *)

\* C15: the multiplexer presents first's capability as its own: MaxTokens()
\* is first.MaxTokens(), and TokenEstimate(history) returns what
\* first.TokenEstimate(history) returns, value or error, and calls no other
\* backend.
C15_FirstsCapability ==
    /\ (mprobe # NoRet /\ mprobe.call = "MaxTokens") =>
          mprobe.value = mfirst.max
    /\ (mprobe # NoRet /\ mprobe.call = "TokenEstimate") =>
          /\ mprobe.result.err = (hist["first"] = EstErr)
          /\ (~mprobe.result.err => mprobe.result.n = hist["first"])
          /\ (mprobe.result.err => mprobe.result.n = 0)
          /\ mprobe.result.log = << <<"TokenEstimate", "first">> >>

\* first's estimate succeeds where second's fails: the multiplexer's
\* estimate is first's value
C15_Witness ==
    /\ mprobe # NoRet
    /\ mprobe.call = "TokenEstimate"
    /\ hist["first"] = 7000
    /\ hist["second"] = EstErr
    /\ mprobe.result = [err |-> FALSE, n |-> 7000,
                        log |-> << <<"TokenEstimate", "first">> >>]

----------------------------------------------------------------------------
(* Text *)

\* unicode.IsSpace on the characters the model uses
IsSpace(c) == c \in {" ", "\n", "\t"}

\* strings.TrimLeftFunc(s, unicode.IsSpace)
RECURSIVE TrimLeft(_)
TrimLeft(s) ==
    IF s # <<>> /\ IsSpace(Head(s)) THEN TrimLeft(Tail(s)) ELSE s

RECURSIVE TrimRight(_)
TrimRight(s) ==
    IF s # <<>> /\ IsSpace(s[Len(s)])
      THEN TrimRight(SubSeq(s, 1, Len(s) - 1))
      ELSE s

\* strings.TrimSpace
TrimSpace(s) == TrimRight(TrimLeft(s))

----------------------------------------------------------------------------
(* The provider backends: gpt4interface.Streaming and complete            *)
(* (src/unnamed/part_002), claudeInterface.Streaming (src/unnamed/part_000) *)

Kinds == {"gpt4", "claude"}

\* the texts a chunk carries
Texts == {<<>>, <<" ">>, <<"a">>, <<" ", "a">>, <<"a", " ">>}

Event(type, text, finish) == [type |-> type, text |-> text, finish |-> finish]

\* What a provider stream can deliver next.
\* gpt4: a chunk with Delta.Content and FinishReason, a response with no
\* choices, or an error from Recv (an API error whose message names a token
\* count - parsable or not -, another API error, a transport error).
\* claude: a chunk with completion and stop_reason, a chunk whose bytes are
\* no JSON, an UnknownUnionMember, another event type, or a stream error
\* (the channel closes and r.Err() is set).
Events(kind) ==
    IF kind = "gpt4"
      THEN {Event("chunk", t, f) :
                t \in Texts, f \in {"", "stop", "length", "content_filter"}}
           \cup {Event(x, <<>>, "") :
                x \in {"nochoices", "apiTokens", "apiTokensHuge", "api", "transport"}}
      ELSE {Event("chunk", t, f) :
                t \in Texts, f \in {"", "stop_sequence", "max_tokens"}}
           \cup {Event(x, <<>>, "") :
                x \in {"badjson", "unknownUnion", "otherType", "transport"}}

BackendOk(c, f) == [kind |-> "ok", Content |-> c, FinishReason |-> f]
BackendErr(e) == [kind |-> "error", err |-> e]

\* the switch of gpt4interface.Streaming, src/unnamed/part_002:126-133
gpt4FinishReason(r) ==
    CASE r = "stop" -> "Stop"
      [] r = "length" -> "Length"
      [] OTHER -> "Unknown"

\* fmt.Fprintln(out) and the return of complete, part_002:182-186, then the
\* Response of gpt4interface.Streaming, part_002:123-134; out is the
\* MultiWriter over the caller's stream and q
gpt4Written(q) == q \o <<"\n">>

gpt4Return(q, reason) == BackendOk(gpt4Written(q), gpt4FinishReason(reason))

\* the error complete returns for a failing Recv, part_002:156-173
gpt4RecvError(type) ==
    IF type = "apiTokensHuge" THEN BackendErr("convError") ELSE BackendErr(type)

\* claude: the text of a chunk as written, part_000:113-117
claudeChunkText(isFirst, text) ==
    IF isFirst THEN TrimLeft(text) ELSE text

\* `Content: strings.TrimSpace(content.String())`, part_000:133
claudeContent(buf) ==
    TrimSpace(buf)

\* the Response claudeInterface.Streaming returns, part_000:132-135
claudeReturn(buf) == BackendOk(claudeContent(buf), "Stop")

BackendInit ==
    /\ bkind \in Kinds
    /\ rolesOK \in BOOLEAN
    /\ bpc = "start"
    /\ opened = FALSE
    /\ closed = FALSE
    /\ received = 0
    /\ lastEvent = NoRet
    /\ sink = <<>>
    /\ content = <<>>
    /\ first = TRUE
    /\ finishReason = ""
    /\ bret = NoRet
    /\ RetryIdle
    /\ OpIdle
    /\ MultiIdle
    /\ SessionIdle
    /\ LimiterIdle
    /\ EstimateIdle
    /\ AttemptIdle

\* Streaming up to the opening of the provider stream: openaiMessages /
\* claudePrompt reject an unknown role (part_002:115-118, part_000:72-75);
\* CreateChatCompletionStream / InvokeModelWithResponseStream may fail
\* (part_002:138-147, part_000:86-94); otherwise the stream is open and its
\* Close is deferred
BackendOpen ==
    /\ bpc = "start"
    /\ IF ~rolesOK
         THEN /\ bret' = BackendErr("unknown role")
              /\ bpc' = "done"
              /\ opened' = FALSE
         ELSE \E ok \in BOOLEAN :
                IF ok
                  THEN /\ opened' = TRUE
                       /\ bpc' = "loop"
                       /\ bret' = bret
                  ELSE /\ opened' = FALSE
                       /\ bpc' = "done"
                       /\ bret' = BackendErr("open")
    /\ UNCHANGED <<bkind, rolesOK, closed, received, lastEvent, sink, content,
                   first, finishReason, notBackend>>

\* mutant: the stream is closed only where the call ends normally
deferredClose_normalOnly(exit) ==
    exit = "end"

\* `defer resp.Close()`, part_002:148, and `defer r.Close()`, part_000:97:
\* whether the stream is closed when the call leaves by the given exit
deferredClose(exit) ==
    TRUE

\* mutant: the first finish reason a stream carries is kept
gpt4Recv_sticky(e) ==
    IF e.type = "chunk"
      THEN /\ finishReason' = IF finishReason # "" THEN finishReason ELSE e.finish
           /\ sink' = sink \o e.text
           /\ content' = content \o e.text
           /\ UNCHANGED <<bpc, closed, bret>>
      ELSE /\ bret' = IF e.type = "nochoices"
                        THEN BackendErr("no choices")
                        ELSE gpt4RecvError(e.type)
           /\ bpc' = "done"
           /\ closed' = deferredClose(e.type)
           /\ UNCHANGED <<finishReason, sink, content>>

\* one pass of complete's loop with an event from Recv, part_002:152-181
gpt4Recv(e) ==
    IF e.type = "chunk"
      THEN /\ finishReason' = e.finish
           /\ sink' = sink \o e.text
           /\ content' = content \o e.text
           /\ UNCHANGED <<bpc, closed, bret>>
      ELSE /\ bret' = IF e.type = "nochoices"
                        THEN BackendErr("no choices")
                        ELSE gpt4RecvError(e.type)
           /\ bpc' = "done"
           /\ closed' = deferredClose(e.type)
           /\ UNCHANGED <<finishReason, sink, content>>

\* one pass of claude's loop over r.Events(), part_000:102-125; a stream
\* error ends the loop and is returned from r.Err(), part_000:126-128
claudeRecv(e) ==
    IF e.type = "chunk"
      THEN /\ sink' = sink \o claudeChunkText(first, e.text)
           /\ content' = content \o claudeChunkText(first, e.text)
           /\ first' = FALSE
           /\ UNCHANGED <<bpc, closed, bret>>
      ELSE /\ bret' = BackendErr(e.type)
           /\ bpc' = "done"
           /\ closed' = deferredClose(e.type)
           /\ UNCHANGED <<sink, content, first>>

BackendRecv ==
    /\ bpc = "loop"
    /\ received < MaxEvents
    /\ \E e \in Events(bkind) :
         /\ lastEvent' = e
         /\ received' = received + 1
         /\ IF bkind = "gpt4"
              THEN gpt4Recv(e) /\ first' = first
              ELSE claudeRecv(e) /\ finishReason' = finishReason
    /\ UNCHANGED <<bkind, rolesOK, opened, notBackend>>

\* the end of the provider stream (io.EOF from Recv / the events channel
\* closes with no error) and the return of the call
BackendEnd ==
    /\ bpc = "loop"
    /\ IF bkind = "gpt4"
         THEN /\ sink' = gpt4Written(sink)
              /\ content' = gpt4Written(content)
              /\ bret' = gpt4Return(content, finishReason)
         ELSE /\ bret' = claudeReturn(content)
              /\ UNCHANGED <<sink, content>>
    /\ bpc' = "done"
    /\ closed' = deferredClose("end")
    /\ UNCHANGED <<bkind, rolesOK, opened, received, lastEvent, first,
                   finishReason, notBackend>>

BackendNext ==
    \/ BackendOpen
    \/ BackendRecv
    \/ BackendEnd

SpecBackend == BackendInit /\ [][BackendNext]_vars

----------------------------------------------------------------------------
(* Claims about the provider backends, checked under SpecBackend *)

\* C6: for every Streaming call that returns successfully, the text written
\* to the caller's sink, in order, equals the Content of the returned
\* Response.
C6_SinkEqualsContent ==
    (bpc = "done" /\ bret.kind = "ok") => sink = bret.Content

\* C22: a Streaming attempt that returns an error has written no text to
\* the output sink (so that the attempts of a turn put the response text on
\* the sink exactly once).
C22_FailedAttemptSilent ==
    (bpc = "done" /\ bret.kind = "error") => sink = <<>>

\* the provider's completion signal: that of the last event received
Signal == IF lastEvent = NoRet THEN "" ELSE lastEvent.finish

\* the normalized finish reason of a provider signal
Normalized(sig) ==
    CASE sig \in {"stop", "stop_sequence"} -> "Stop"
      [] sig \in {"length", "max_tokens"} -> "Length"
      [] OTHER -> "Unknown"

\* C23: every backend maps the provider's completion signal to the
\* normalized finish reason: a normal stop gives Stop, a completion cut by
\* the token limit gives Length, any other or missing signal gives Unknown.
C23_FinishReasonMapped ==
    (bpc = "done" /\ bret.kind = "ok") =>
        bret.FinishReason = Normalized(Signal)

\* C25: once a Streaming call has opened the provider stream, the stream is
\* closed when the call returns, on every exit path: normal end of stream,
\* receive or transport error, decode error, unexpected event, no choices.
C25_StreamClosed ==
    /\ (bpc = "done" /\ opened) => closed
    /\ closed => opened
    /\ bpc = "loop" => (opened /\ ~closed)

\* a call that opened the stream and left by a decode error after a chunk
C25_Witness ==
    /\ bpc = "done"
    /\ opened
    /\ closed
    /\ received = 2
    /\ bret = BackendErr("badjson")
    /\ sink # <<>>

----------------------------------------------------------------------------
(* The session loop Streaming, src/unnamed/part_004:65-146 *)

\* retry(7, 3*time.Second, ...)
SessionMaxTries == 7
SessionDelay == 3

\* mutant: only leading white space is removed
messageContent_left(text) ==
    TrimLeft(text)

\* `Content: strings.TrimSpace(text)` in add, part_004:71
messageContent(text) ==
    TrimSpace(text)

\* mutant: the new message is put in front of the history
add_front(msgs, role, text) ==
    <<[Role |-> role, Content |-> messageContent(text)]>> \o msgs

\* mutant: a message that is empty after trimming is not stored
add_dropEmpty(msgs, role, text) ==
    IF messageContent(text) = <<>>
      THEN msgs
      ELSE Append(msgs, [Role |-> role, Content |-> messageContent(text)])

\* add / addSystem / addUser / addAssistant, part_004:68-82
add(msgs, role, text) ==
    Append(msgs, [Role |-> role, Content |-> messageContent(text)])

\* The truncation marker "\n<token limit for response reached>\n" of
\* part_004:122; the words between the two newlines are written "<", ">"
MarkerText == <<"<", ">">>
truncationMsg == <<"\n">> \o MarkerText \o <<"\n">>

\* The text of a resource, part_004:90-94.  The two fixed phrases of the
\* template are written "M:" (the following resource has metadata:) and
\* "C:" (here's the contents of the resource:)
resourceText(f) ==
    IF Len(f.meta) > 0
      THEN <<"M", ":", "\n", "\n">> \o f.meta
             \o <<"\n", "\n", "C", ":", "\n", "\n">> \o f.body
      ELSE f.body

\* the loop over promptFiles, part_004:83-99
RECURSIVE loadFiles(_, _)

\* mutant: the files are taken last to first
loadFiles_reverse(fs, msgs) ==
    IF fs = <<>> THEN [err |-> FALSE, messages |-> msgs]
    ELSE IF fs[Len(fs)].readErr THEN [err |-> TRUE, messages |-> msgs]
    ELSE loadFiles(SubSeq(fs, 1, Len(fs) - 1),
                   add(msgs, "System", resourceText(fs[Len(fs)])))

loadFiles(fs, msgs) ==
    IF fs = <<>> THEN [err |-> FALSE, messages |-> msgs]
    ELSE IF Head(fs).readErr THEN [err |-> TRUE, messages |-> msgs]
    ELSE loadFiles(Tail(fs), add(msgs, "System", resourceText(Head(fs))))

\* mutant: an unknown finish reason is treated like a normal stop
finishAction_lenient(f) ==
    IF f = "Length" THEN "appendMarked" ELSE "append"

\* mutant: a truncated response is appended without the marker
finishAction_nomark(f) ==
    IF f \in {"Stop", "Length"} THEN "append" ELSE "fail"

\* the switch on r.FinishReason, part_004:118-127
finishAction(f) ==
    CASE f = "Stop" -> "append"
      [] f = "Length" -> "appendMarked"
      [] OTHER -> "fail"

\* mutant: an unknown finish reason counts as a failed attempt
attemptFailed_unknown(o) ==
    o.kind = "error" \/ o.FinishReason = "Unknown"

\* `if err != nil` in retry, part_004:154
attemptFailed(o) ==
    o.kind = "error"

\* mutant: the line is tested before it is trimmed
isBlank_raw(text) ==
    Len(text) = 0

\* `text = strings.TrimSpace(text); if len(text) == 0`, part_004:139-140
isBlank(text) ==
    Len(TrimSpace(text)) = 0

\* mutant: end of input counts only when no text came with it
endOfInput_strict(in) ==
    in.err = "EOF" /\ in.text = <<>>

\* `if err == io.EOF`, part_004:133
endOfInput(in) ==
    in.err = "EOF"

\* What config.Streaming can return: an error, or a Response with any
\* content and finish reason (LLMInterface, part_004:14-31).  The errors are
\* a transport failure, an event that cannot be decoded, "unknown role"
\* (openaiMessages, claudePrompt) and a failing TokenEstimate inside a
\* multiplexer (multi.go:42-50)
Contents == {<<"b">>, <<" ", "b", "\n">>, <<"\n">>}
FinishReasons == {"Stop", "Length", "Unknown"}
Outcome(kind, err, c, f) ==
    [kind |-> kind, err |-> err, Content |-> c, FinishReason |-> f]
Outcomes ==
    {Outcome("error", e, <<>>, "None") :
        e \in {"transport", "decode", "role", "estimate"}}
    \cup {Outcome("ok", "", c, f) : c \in Contents, f \in FinishReasons}

\* What reader.ReadString('\n') can return: a line with its newline, the
\* rest of the input (possibly empty) with io.EOF, or another error
LineBodies == {<<>>, <<" ">>, <<" ", "u", " ">>}
Inputs ==
    {[text |-> b \o <<"\n">>, err |-> ""] : b \in LineBodies}
    \cup {[text |-> b, err |-> "EOF"] : b \in LineBodies}
    \cup {[text |-> <<>>, err |-> "other"]}

Prompts == {<<>>, <<"p">>, <<" ", "p", "\n">>}
File(meta, body, readErr) == [meta |-> meta, body |-> body, readErr |-> readErr]
Files ==
    {File(<<>>, <<" ", "d", "\n">>, FALSE), File(<<"m">>, <<" ", "d", "\n">>, FALSE),
     File(<<>>, <<>>, TRUE)}
FileSeqs == UNION {[1..n -> Files] : n \in 0..MaxFiles}

SessionInit ==
    /\ prompt \in Prompts
    /\ print \in BOOLEAN
    /\ files \in FileSeqs
    /\ messages = <<>>
    /\ init = FALSE
    /\ pc = "setup"
    /\ serr = NoRet
    /\ inflight = 0
    /\ echoed = 0
    /\ prompts = 0
    /\ reads = 0
    /\ turns = 0
    /\ dispatched = <<>>
    /\ inputLog = <<>>
    /\ RetryIdle
    /\ OpIdle
    /\ MultiIdle
    /\ BackendIdle
    /\ LimiterIdle
    /\ EstimateIdle
    /\ AttemptIdle

notSession == <<opVars, multiVars, backendVars, limiterVars, estimateVars, attemptVars>>

\* mutant: the first turn is dispatched whether or not a prompt was given
seedInit_always(p) ==
    TRUE

\* `if len(config.Prompt) > 0 { init = true; addSystem(config.Prompt) }`,
\* part_004:100-104: the condition
seedInit(p) ==
    Len(p) > 0

\* Streaming up to its loop, part_004:66-109
Setup ==
    /\ pc = "setup"
    /\ LET l == loadFiles(files, <<>>)
           seeded == IF Len(prompt) > 0
                       THEN add(l.messages, "System", prompt)
                       ELSE l.messages
           seedTurn == seedInit(prompt)
       IN  IF l.err
             THEN /\ pc' = "failed"
                  /\ serr' = [kind |-> "read file"]
                  /\ messages' = l.messages
                  /\ UNCHANGED <<init, echoed>>
             ELSE /\ pc' = "top"
                  /\ messages' = seeded
                  /\ init' = seedTurn
                  /\ echoed' = IF print THEN Len(seeded) ELSE 0
                  /\ serr' = serr
    /\ UNCHANGED <<prompt, print, files, inflight, prompts, reads, turns,
                   dispatched, inputLog, retryVars, notSession>>

\* `if init { r, err := retry(7, 3*time.Second, ...`, part_004:111-112 and
\* the first lines of retry, part_004:148-151
Dispatch ==
    /\ pc = "top"
    /\ init
    /\ turns < MaxTurns
    /\ maxTries' = SessionMaxTries
    /\ dt' = SessionDelay
    /\ tries' = 0
    /\ slept' = 0
    /\ sleeps' = <<>>
    /\ calls' = 0
    /\ ret' = NoRet
    /\ outcome' = NoRet
    /\ turns' = turns + 1
    /\ dispatched' = messages
    /\ pc' = "call"
    /\ UNCHANGED <<prompt, print, files, messages, init, serr, inflight, echoed,
                   prompts, reads, inputLog, notSession>>

\* the loop head with init false, then `init = true; fmt.Print("> ")`,
\* part_004:111, 130-131
SkipDispatch ==
    /\ pc = "top"
    /\ ~init
    /\ init' = TRUE
    /\ prompts' = prompts + 1
    /\ pc' = "read"
    /\ UNCHANGED <<prompt, print, files, messages, serr, inflight, echoed,
                   reads, turns, dispatched, inputLog, retryVars,
                   notSession>>

\* mutant: a retry does not wait for the previous call to return
callsNext_eager(p) ==
    p \in {"call", "inflight"}

\* `for { r, err := f()`, part_004:152-153: retry calls f at the head of its
\* loop, which it reaches only once the previous call has returned
callsNext(p) ==
    p = "call"

\* retry calls f: config.Streaming(messages, os.Stdout) starts, part_004:113, 153
StartAttempt ==
    /\ callsNext(pc)
    /\ inflight' = inflight + 1
    /\ calls' = calls + 1
    /\ pc' = "inflight"
    /\ UNCHANGED <<prompt, print, files, messages, init, serr, echoed, prompts,
                   reads, turns, dispatched, inputLog, maxTries, tries, dt,
                   slept, sleeps, ret, outcome, notSession>>

\* config.Streaming returns and retry handles the result, part_004:153-163;
\* when retry gives up Streaming returns its error, part_004:115-117
FinishAttempt ==
    /\ pc = "inflight"
    /\ inflight' = inflight - 1
    /\ \E o \in Outcomes :
         /\ outcome' = o
         /\ IF attemptFailed(o)
           THEN /\ tries' = tries + 1
                /\ IF retryGivesUp(tries + 1, maxTries)
                     THEN /\ ret' = retryError(o.err, tries + 1, slept)
                          /\ serr' = [kind |-> "can't complete"]
                          /\ pc' = "failed"
                     ELSE /\ ret' = ret
                          /\ serr' = serr
                          /\ pc' = "sleep"
           ELSE /\ tries' = tries
                /\ ret' = retryOk(o)
                /\ serr' = serr
                /\ pc' = "switch"
    /\ UNCHANGED <<prompt, print, files, messages, init, echoed, prompts,
                   reads, turns, dispatched, inputLog, maxTries, dt,
                   slept, sleeps, calls, notSession>>

\* time.Sleep(dt); dt *= 2 inside retry, part_004:158-160
Sleep ==
    /\ pc = "sleep"
    /\ slept' = slept + dt
    /\ sleeps' = Append(sleeps, dt)
    /\ dt' = retryBackoff(dt)
    /\ pc' = "call"
    /\ UNCHANGED <<prompt, print, files, messages, init, serr, inflight, echoed,
                   prompts, reads, turns, dispatched, inputLog,
                   maxTries, tries, calls, ret, outcome, notSession>>

\* the switch on the finish reason, then `init = true; fmt.Print("> ")`,
\* part_004:118-131; when the loop goes on the locals of the retry call are
\* gone (ret and outcome keep what it returned)
Switch ==
    /\ pc = "switch"
    /\ LET r == ret.value
           act == finishAction(r.FinishReason)
       IN  IF act = "fail"
             THEN /\ serr' = [kind |-> "bad finish reason"]
                  /\ pc' = "failed"
                  /\ UNCHANGED <<messages, init, prompts, retryVars>>
             ELSE /\ messages' = add(messages, "Assistant",
                                     IF act = "appendMarked"
                                       THEN r.Content \o truncationMsg
                                       ELSE r.Content)
                  /\ init' = TRUE
                  /\ prompts' = prompts + 1
                  /\ pc' = "read"
                  /\ serr' = serr
                  /\ maxTries' = 0 /\ tries' = 0 /\ dt' = 0 /\ slept' = 0
                  /\ sleeps' = <<>> /\ calls' = 0
                  /\ UNCHANGED <<ret, outcome>>
    /\ UNCHANGED <<prompt, print, files, inflight, echoed, reads, turns,
                   dispatched, inputLog, notSession>>

\* mutant: a blank line leaves init set, so the loop dispatches again
initAfterBlank_kept ==
    TRUE

\* `init = false` before `continue`, part_004:141
initAfterBlank ==
    FALSE

\* what follows reader.ReadString('\n') when it returned `in`,
\* part_004:133-144
ReadInput(in) ==
    /\ inputLog' = Append(inputLog, in)
    /\ IF endOfInput(in)
         THEN /\ pc' = "closed"
              /\ UNCHANGED <<messages, init, serr>>
       ELSE IF in.err # ""
         THEN /\ pc' = "failed"
              /\ serr' = [kind |-> "can't read from stdin"]
              /\ UNCHANGED <<messages, init>>
       ELSE IF isBlank(in.text)
         THEN /\ init' = initAfterBlank
              /\ pc' = "top"
              /\ UNCHANGED <<messages, serr>>
       ELSE /\ messages' = add(messages, "User", TrimSpace(in.text))
            /\ pc' = "top"
            /\ UNCHANGED <<init, serr>>

\* reader.ReadString('\n') and what follows it, part_004:132-145
Read ==
    /\ pc = "read"
    /\ reads < MaxReads
    /\ reads' = reads + 1
    /\ \E in \in Inputs : ReadInput(in)
    /\ UNCHANGED <<prompt, print, files, inflight, echoed, prompts, turns,
                   dispatched, retryVars, notSession>>

Next ==
    \/ Setup
    \/ Dispatch
    \/ SkipDispatch
    \/ StartAttempt
    \/ FinishAttempt
    \/ Sleep
    \/ Switch
    \/ Read

Spec == SessionInit /\ [][Next]_vars

\* The session on a finite input stream: the stream holds fewer than
\* MaxReads lines, of which at most MaxTurns are not blank, and then ends
\* (io.EOF) or fails; every backend call returns and every ReadString
\* returns, so that a step that can be taken is taken.
FiniteInputs ==
    {in \in Inputs :
        in.err = "" =>
            /\ reads < MaxReads - 1
            /\ (isBlank(in.text) \/ turns < MaxTurns)}

\* reader.ReadString('\n') on the finite stream, part_004:132-145
FiniteRead ==
    /\ pc = "read"
    /\ reads < MaxReads
    /\ reads' = reads + 1
    /\ \E in \in FiniteInputs : ReadInput(in)
    /\ UNCHANGED <<prompt, print, files, inflight, echoed, prompts, turns,
                   dispatched, retryVars, notSession>>

\* the prompt files of these runs: none, one that cannot be read, one with
\* metadata
FiniteFileSeqs ==
    {<<>>, <<File(<<>>, <<>>, TRUE)>>, <<File(<<"m">>, <<" ", "d", "\n">>, FALSE)>>}

FiniteInit ==
    /\ prompt \in Prompts
    /\ print \in BOOLEAN
    /\ files \in FiniteFileSeqs
    /\ messages = <<>>
    /\ init = FALSE
    /\ pc = "setup"
    /\ serr = NoRet
    /\ inflight = 0
    /\ echoed = 0
    /\ prompts = 0
    /\ reads = 0
    /\ turns = 0
    /\ dispatched = <<>>
    /\ inputLog = <<>>
    /\ RetryIdle
    /\ OpIdle
    /\ MultiIdle
    /\ BackendIdle
    /\ LimiterIdle
    /\ EstimateIdle
    /\ AttemptIdle

FiniteNext ==
    \/ Setup
    \/ Dispatch
    \/ SkipDispatch
    \/ StartAttempt
    \/ FinishAttempt
    \/ Sleep
    \/ Switch
    \/ FiniteRead

SpecFinite == FiniteInit /\ [][FiniteNext]_vars /\ WF_vars(FiniteNext)

\* The initialization alone (part_004:66-109), with more prompt files and
\* prompts than the runs of the whole session take
SetupPrompts == Prompts \cup {<<" ">>}
SetupFiles == Files \cup {File(<<>>, <<>>, FALSE)}
SetupFileSeqs == UNION {[1..n -> SetupFiles] : n \in 0..MaxSetupFiles}

SetupInit ==
    /\ prompt \in SetupPrompts
    /\ print \in BOOLEAN
    /\ files \in SetupFileSeqs
    /\ messages = <<>>
    /\ init = FALSE
    /\ pc = "setup"
    /\ serr = NoRet
    /\ inflight = 0
    /\ echoed = 0
    /\ prompts = 0
    /\ reads = 0
    /\ turns = 0
    /\ dispatched = <<>>
    /\ inputLog = <<>>
    /\ RetryIdle
    /\ OpIdle
    /\ MultiIdle
    /\ BackendIdle
    /\ LimiterIdle
    /\ EstimateIdle
    /\ AttemptIdle

SpecSetup == SetupInit /\ [][Setup]_vars

----------------------------------------------------------------------------
(* Claims about the session loop, checked under Spec *)

Last(q) == q[Len(q)]

EndsWith(q, suffix) ==
    /\ Len(q) >= Len(suffix)
    /\ SubSeq(q, Len(q) - Len(suffix) + 1, Len(q)) = suffix

\* this step appends exactly one message, with the given role
AppendsOne(role) ==
    /\ Len(messages') = Len(messages) + 1
    /\ SubSeq(messages', 1, Len(messages)) = messages
    /\ Last(messages').Role = role

\* this step appends an Assistant message
AppendsAssistant ==
    /\ messages' # messages
    /\ Len(messages') > 0
    /\ Last(messages').Role = "Assistant"

\* the response retry handed to the switch completed with Stop or Length
Completed ==
    /\ pc = "switch"
    /\ ret.kind = "ok"
    /\ ret.value.kind = "ok"
    /\ ret.value.FinishReason \in {"Stop", "Length"}

\* C1: an Assistant message is appended if and only if a backend call
\* returned without error with finish reason Stop or Length; while the
\* attempts of a turn run, and when its retries are exhausted, the history is
\* exactly what it was when the dispatch started.
C1_AppendIffCompleted ==
    [][/\ AppendsAssistant => (Completed /\ AppendsOne("Assistant"))
       /\ Completed => AppendsOne("Assistant")
       /\ pc \in {"call", "inflight", "sleep"} =>
             (messages = dispatched /\ messages' = messages)
       /\ (pc = "inflight" /\ pc' = "failed") =>
             (serr'.kind = "can't complete" /\ messages' = dispatched)]_vars

\* the retries of a second turn are exhausted after a first turn appended
C1_Witness ==
    /\ pc = "failed"
    /\ serr.kind = "can't complete"
    /\ tries = SessionMaxTries
    /\ messages = dispatched
    /\ \E i \in 1..Len(messages) : messages[i].Role = "Assistant"
    /\ Last(messages).Role = "User"

\* C7: when a backend call returns finish reason Unknown the session ends
\* with an error, the history is what it was when the dispatch started, and
\* the call is not repeated: it is the last call of the turn.
C7_UnknownEndsSession ==
    (outcome.kind = "ok" /\ outcome.FinishReason = "Unknown") =>
        /\ pc \in {"switch", "failed"}
        /\ (pc = "failed" => serr.kind = "bad finish reason")
        /\ ret = retryOk(outcome)
        /\ calls = tries + 1
        /\ inflight = 0
        /\ messages = dispatched

\* an Unknown response after one failed attempt has ended the session
C7_Witness ==
    /\ pc = "failed"
    /\ serr.kind = "bad finish reason"
    /\ outcome.kind = "ok"
    /\ outcome.FinishReason = "Unknown"
    /\ calls = 2
    /\ messages = dispatched

\* this step handles a response with the given finish reason
Handles(f) ==
    /\ pc = "switch"
    /\ ret.kind = "ok"
    /\ ret.value.FinishReason = f

\* C8 as stated: on Length the session appends one Assistant message whose
\* content is the returned content followed by the truncation marker (the
\* marker as printed, or without its final newline), and next waits for
\* input.
C8_Original ==
    [][Handles("Length") =>
          /\ \/ messages' = Append(messages,
                    [Role |-> "Assistant",
                     Content |-> ret.value.Content \o truncationMsg])
             \/ messages' = Append(messages,
                    [Role |-> "Assistant",
                     Content |-> ret.value.Content \o <<"\n">> \o MarkerText])
          /\ pc' = "read"]_vars

\* C8 amended: on Length the session appends exactly one Assistant message
\* whose content is the returned content followed by the truncation marker
\* with leading and trailing white space trimmed; it ends with the marker's
\* text; the session does not terminate and next waits for input.
C8_LengthAppendsTrimmed ==
    [][Handles("Length") =>
          /\ messages' = Append(messages,
                 [Role |-> "Assistant",
                  Content |-> TrimSpace(ret.value.Content \o truncationMsg)])
          /\ EndsWith(Last(messages').Content, MarkerText)
          /\ pc' = "read"
          /\ serr' = NoRet
          /\ prompts' = prompts + 1]_vars

\* a truncated response was appended and the session waits for input
C8_Witness ==
    /\ pc = "read"
    /\ ret.kind = "ok"
    /\ ret.value.FinishReason = "Length"
    /\ ret.value.Content = <<" ", "b", "\n">>
    /\ Last(messages) = [Role |-> "Assistant",
                         Content |-> <<"b", "\n", "\n", "<", ">">>]

\* C9 as stated: on Stop the appended Assistant message has the returned
\* content verbatim.
C9_Original ==
    [][Handles("Stop") =>
          messages' = Append(messages,
              [Role |-> "Assistant", Content |-> ret.value.Content])]_vars

\* C9 amended: on Stop the appended Assistant message has the returned
\* content with its leading and trailing white space removed.
C9_StopAppendsTrimmed ==
    [][Handles("Stop") =>
          /\ messages' = Append(messages,
                 [Role |-> "Assistant",
                  Content |-> TrimSpace(ret.value.Content)])
          /\ pc' = "read"]_vars

\* a response with white space at both ends was appended
C9_Witness ==
    /\ pc = "read"
    /\ ret.kind = "ok"
    /\ ret.value.FinishReason = "Stop"
    /\ ret.value.Content = <<" ", "b", "\n">>
    /\ Last(messages) = [Role |-> "Assistant", Content |-> <<"b">>]

\* this step is a ReadString that returned a line (no error)
ReadsLine ==
    /\ pc = "read"
    /\ reads' = reads + 1
    /\ Last(inputLog').err = ""

\* C10: a line that is empty after trimming causes no backend call and
\* leaves the history unchanged; the session prompts again, and a later
\* non-empty line is appended as a User message and dispatched.
C10_BlankLineSkipped ==
    [][/\ (ReadsLine /\ TrimSpace(Last(inputLog').text) = <<>>) =>
             /\ messages' = messages
             /\ pc' = "top"
             /\ ~init'
             /\ UNCHANGED <<turns, calls, inflight>>
       /\ (pc = "top" /\ ~init) =>
             /\ pc' = "read"
             /\ prompts' = prompts + 1
             /\ init'
             /\ UNCHANGED <<messages, turns, calls, inflight>>
       /\ (ReadsLine /\ TrimSpace(Last(inputLog').text) # <<>>) =>
             /\ messages' = Append(messages,
                    [Role |-> "User",
                     Content |-> TrimSpace(Last(inputLog').text)])
             /\ pc' = "top"
             /\ init'
       /\ (pc = "top" /\ init) =>
             /\ pc' = "call"
             /\ turns' = turns + 1
             /\ dispatched' = messages
       /\ pc = "call" => (pc' = "inflight" /\ inflight' = 1)]_vars

\* a blank line was read, then a non-empty one, which is being dispatched
C10_Witness ==
    /\ pc = "inflight"
    /\ Len(inputLog) = 2
    /\ inputLog[1] = [text |-> <<" ", "\n">>, err |-> ""]
    /\ inputLog[2] = [text |-> <<" ", "u", " ", "\n">>, err |-> ""]
    /\ prompts = 2
    /\ Last(messages) = [Role |-> "User", Content |-> <<"u">>]
    /\ dispatched = messages

\* a line that is not empty after trimming was read before this state
NonEmptyLineRead ==
    \E i \in 1..Len(inputLog) :
        inputLog[i].err = "" /\ TrimSpace(inputLog[i].text) # <<>>

\* C11 as stated: a backend call is dispatched before any input is read only
\* when a seed prompt is present and the echo flag is set; in every other
\* configuration the first dispatch comes after the first non-empty line.
C11_Original ==
    /\ (turns >= 1 /\ reads = 0) => (Len(prompt) > 0 /\ print)
    /\ (turns >= 1 /\ ~(Len(prompt) > 0 /\ print)) => NonEmptyLineRead

\* C11 amended: a backend call is dispatched before any input is read exactly
\* when the seed prompt is non-empty, whatever the echo flag: with a seed
\* prompt no input is read before the first dispatch, and without one the
\* first dispatch comes only after the first non-empty line.
C11_SeedPromptDispatches ==
    /\ (turns >= 1 /\ reads = 0) => Len(prompt) > 0
    /\ (Len(prompt) > 0 /\ pc \notin {"setup", "top", "failed"}) => turns >= 1
    /\ (Len(prompt) > 0 /\ reads >= 1) => turns >= 1
    /\ (Len(prompt) = 0 /\ turns >= 1) => NonEmptyLineRead
    /\ (Len(prompt) = 0 /\ pc \in {"top", "read"} /\ ~NonEmptyLineRead) =>
           turns = 0

\* a seed prompt with the echo flag unset was dispatched before any input
C11_Witness ==
    /\ pc = "inflight"
    /\ reads = 0
    /\ turns = 1
    /\ Len(prompt) > 0
    /\ ~print
    /\ echoed = 0
    /\ Last(dispatched).Role = "System"

\* C12: a backend call that fails with an unknown-role error, or with an
\* estimation error of the multiplexer, is the only call of its turn: the
\* session returns the error at once, without a backoff sleep.
C12_RoleErrorsNotRetried ==
    (outcome.kind = "error" /\ outcome.err \in {"role", "estimate"}) =>
        /\ pc = "failed"
        /\ serr # NoRet
        /\ calls = 1
        /\ sleeps = <<>>

----------------------------------------------------------------------------
(* Claims about the initialization, checked under SpecSetup *)

\* the System message of a document, with the given treatment of its text
DocMessages(text(_)) ==
    [i \in 1..Len(files) |->
        [Role |-> "System", Content |-> text(resourceText(files[i]))]]

\* the System message of the seed prompt, when there is one
SeedMessages(text(_)) ==
    IF Len(prompt) > 0
      THEN << [Role |-> "System", Content |-> text(prompt)] >>
      ELSE <<>>

Verbatim(t) == t

\* C16 as stated: after initialization the history is one System message per
\* document, in the order given (the template when the label is non-empty,
\* the raw body otherwise), then the seed prompt when it is non-empty, and
\* nothing else.
C16_Original ==
    pc = "top" =>
        messages = DocMessages(Verbatim) \o SeedMessages(Verbatim)

\* C16 amended: as stated, with the content of every message being the text
\* with its leading and trailing white space removed.
C16_InitialHistoryTrimmed ==
    pc = "top" =>
        /\ messages = DocMessages(TrimSpace) \o SeedMessages(TrimSpace)
        /\ Len(messages) = Len(files) + (IF Len(prompt) > 0 THEN 1 ELSE 0)
        /\ \A i \in 1..Len(messages) : messages[i].Role = "System"

\* two different documents, the labelled one first, and a seed prompt
C16_Witness ==
    /\ pc = "top"
    /\ Len(files) = 2
    /\ files[1].meta = <<"m">>
    /\ files[2].meta = <<>>
    /\ prompt = <<" ", "p", "\n">>
    /\ messages =
         << [Role |-> "System",
             Content |-> <<"M", ":", "\n", "\n", "m", "\n", "\n",
                           "C", ":", "\n", "\n", " ", "d">>],
            [Role |-> "System", Content |-> <<"d">>],
            [Role |-> "System", Content |-> <<"p">>] >>

----------------------------------------------------------------------------
(* Further claims about the session loop, checked under Spec *)

\* this step is a ReadString that returned io.EOF
ReadsEOF ==
    /\ pc = "read"
    /\ reads' = reads + 1
    /\ Last(inputLog').err = "EOF"

\* C17: on end of input while awaiting a line the session returns normally
\* (no error), makes no further backend call and does not change the
\* history; nothing happens after it has returned.
C17_EndOfInput ==
    [][/\ ReadsEOF =>
             /\ pc' = "closed"
             /\ serr' = NoRet
             /\ messages' = messages
             /\ UNCHANGED <<turns, calls, inflight, dispatched>>
       /\ pc # "closed"]_vars

\* the input ended in the middle of a line after a completed turn
C17_Witness ==
    /\ pc = "closed"
    /\ serr = NoRet
    /\ turns = 1
    /\ inflight = 0
    /\ Last(inputLog) = [text |-> <<" ", "u", " ">>, err |-> "EOF"]
    /\ Last(messages).Role = "Assistant"

IsPrefix(q, r) ==
    /\ Len(q) <= Len(r)
    /\ SubSeq(r, 1, Len(q)) = q

\* C18: the history is append-only: in every step the previous history is a
\* prefix of the new one, and a step adds at most one message once the
\* session is initialized.
C18_AppendOnly ==
    [][/\ IsPrefix(messages, messages')
       /\ pc # "setup" => Len(messages') <= Len(messages) + 1]_vars

\* a history of four messages built by a seeded turn and a user turn
C18_Witness ==
    /\ pc = "read"
    /\ Len(messages) = 4
    /\ messages[1].Role = "System"
    /\ messages[2].Role = "Assistant"
    /\ messages[3].Role = "User"
    /\ messages[4].Role = "Assistant"
    /\ IsPrefix(dispatched, messages)

\* the length of the history while the session awaited the line that started
\* the last turn: the dispatched history without the User message of the line
AwaitedBefore == Len(dispatched) - 1

\* the session awaits input after a turn that a user line started
AwaitsAfterUserTurn ==
    /\ pc = "read"
    /\ turns >= 1
    /\ Last(dispatched).Role = "User"

\* the number of messages the initialization appended
InitialLen == Len(files) + (IF Len(prompt) > 0 THEN 1 ELSE 0)

\* the number of lines read so far that are not empty after trimming
LinesAdded ==
    Cardinality({i \in 1..Len(inputLog) :
                    inputLog[i].err = "" /\ TrimSpace(inputLog[i].text) # <<>>})

\* C19 as stated: from the state awaiting input before a turn to the state
\* awaiting input after it completed the history grows by exactly 1.
C19_Original ==
    AwaitsAfterUserTurn => Len(messages) = AwaitedBefore + 1

\* C19 amended: from the state awaiting input before a turn to the state
\* awaiting input after it completed the history grows by exactly 2 (the
\* User message of the line and the Assistant message of the response); the
\* turn started by the seed prompt, which begins with no wait, adds 1.
C19_TwoPerTurn ==
    /\ AwaitsAfterUserTurn =>
          /\ Len(messages) = AwaitedBefore + 2
          /\ messages[Len(messages) - 1].Role = "User"
          /\ Last(messages).Role = "Assistant"
    /\ pc = "read" =>
          /\ Len(messages) = InitialLen + 2 * LinesAdded
                               + (IF Len(prompt) > 0 THEN 1 ELSE 0)
          /\ turns = LinesAdded + (IF Len(prompt) > 0 THEN 1 ELSE 0)

\* two user turns completed, the second with an empty response
C19_Witness ==
    /\ pc = "read"
    /\ Len(prompt) = 0
    /\ turns = 2
    /\ LinesAdded = 2
    /\ Len(messages) = InitialLen + 4
    /\ Last(messages) = [Role |-> "Assistant", Content |-> <<>>]

\* the role the message at position i (after the initial ones) must carry
TurnRole(i) ==
    LET odd == IF Len(prompt) > 0 THEN "Assistant" ELSE "User"
        even == IF Len(prompt) > 0 THEN "User" ELSE "Assistant"
    IN  IF (i - InitialLen) % 2 = 1 THEN odd ELSE even

\* C29: the initial messages are System messages; the messages after them
\* strictly alternate between User and Assistant, starting with Assistant
\* when a seed prompt primed the first turn and with User otherwise; and a
\* backend call is dispatched (and attempted) only on a history whose last
\* message is not an Assistant message.
C29_Alternation ==
    /\ \A i \in 1..Len(messages) :
          IF i <= InitialLen
            THEN messages[i].Role = "System"
            ELSE messages[i].Role = TurnRole(i)
    /\ turns >= 1 =>
          (dispatched = <<>> \/ Last(dispatched).Role # "Assistant")
    /\ pc \in {"call", "inflight", "sleep"} =>
          (messages = dispatched /\ messages # <<>>
             /\ Last(messages).Role # "Assistant")

\* a seeded session that answered, skipped a blank line, and answered a line
C29_Witness ==
    /\ pc = "read"
    /\ Len(prompt) > 0
    /\ Len(messages) = InitialLen + 3
    /\ messages[InitialLen + 1].Role = "Assistant"
    /\ messages[InitialLen + 2].Role = "User"
    /\ messages[InitialLen + 3].Role = "Assistant"
    /\ \E i \in 1..Len(inputLog) :
          inputLog[i].err = "" /\ TrimSpace(inputLog[i].text) = <<>>

\* the number of inputs read so far, ended by a newline or by the end of the
\* input, that are not empty after trimming
LinesTyped ==
    Cardinality({i \in 1..Len(inputLog) :
                    inputLog[i].err \in {"", "EOF"}
                      /\ TrimSpace(inputLog[i].text) # <<>>})

UserMessages ==
    Cardinality({i \in 1..Len(messages) : messages[i].Role = "User"})

\* C30: when the session has closed, every non-empty line of the input, a
\* final line ended by the end of the input instead of a newline included,
\* was appended as a User message and dispatched.
C30_EveryLineDispatched ==
    (pc = "closed" /\ serr = NoRet) =>
        /\ UserMessages = LinesTyped
        /\ turns = LinesTyped + (IF Len(prompt) > 0 THEN 1 ELSE 0)

\* C20: at most one backend call is in flight at any time: an attempt, the
\* retries included, starts only when none is in flight, and no input is
\* read while a call is in flight.
C20_OneInFlight ==
    [][/\ inflight \in {0, 1}
       /\ inflight' \in {0, 1}
       /\ (inflight = 1) = (pc = "inflight")
       /\ inflight' > inflight => (inflight = 0 /\ pc = "call")
       /\ calls' = calls + 1 => inflight = 0
       /\ reads' # reads => (inflight = 0 /\ inflight' = 0)]_vars

\* the second attempt of a turn is in flight, after input was read
C20_Witness ==
    /\ pc = "inflight"
    /\ inflight = 1
    /\ calls = 2
    /\ tries = 1
    /\ reads >= 1

----------------------------------------------------------------------------
(* The rate-limited session loop Streaming of src/chat.go:38-130, with its  *)
(* own complete and retry (src/chat.go:201-218, the text of part_004's).    *)
(* config.Callback is nil.                                                  *)

\* The text of the metadata message, src/chat.go:69; the fixed phrase is
\* written "M:" as in resourceText
limitedMetaText(f) == <<"M", ":", "\n", "\n">> \o f.meta

\* the loop over promptFiles, src/chat.go:61-76: a file with metadata gives
\* two System messages
RECURSIVE limitedLoadFiles(_, _)
limitedLoadFiles(fs, msgs) ==
    IF fs = <<>> THEN [err |-> FALSE, messages |-> msgs]
    ELSE IF Head(fs).readErr THEN [err |-> TRUE, messages |-> msgs]
    ELSE LET f == Head(fs)
             withMeta == IF f.meta # <<>>
                           THEN add(msgs, "System", limitedMetaText(f))
                           ELSE msgs
         IN  limitedLoadFiles(Tail(fs), add(withMeta, "System", f.body))

\* the marker "\n<token limit of %d for response reached>\n", src/chat.go:106
limitedTruncationMsg == <<"\n", "<", "N", ">", "\n">>

\* the switch on r.FinishReason, src/chat.go:102-111
limitedFinishAction(f) ==
    CASE f = "stop" -> "append"
      [] f = "length" -> "appendMarked"
      [] OTHER -> "fail"

\* what complete can return, src/chat.go:97: an error or a completionResponse
\* with the provider's finish reason
LimitedOutcomes ==
    {Outcome("error", "transport", <<>>, "None")}
    \cup {Outcome("ok", "", c, f) : c \in Contents, f \in {"stop", "length", ""}}

LimitedInit ==
    /\ prompt \in Prompts
    /\ print = FALSE
    /\ files \in FileSeqs
    /\ messages = <<>>
    /\ init = FALSE
    /\ pc = "setup"
    /\ serr = NoRet
    /\ inflight = 0
    /\ echoed = 0
    /\ prompts = 0
    /\ reads = 0
    /\ turns = 0
    /\ dispatched = <<>>
    /\ inputLog = <<>>
    /\ waits = 0
    /\ completions = 0
    /\ RetryIdle
    /\ OpIdle
    /\ MultiIdle
    /\ BackendIdle
    /\ EstimateIdle
    /\ AttemptIdle

notLimited == <<opVars, multiVars, backendVars, estimateVars, attemptVars>>

\* Streaming up to its loop, src/chat.go:39-81
LimitedSetup ==
    /\ pc = "setup"
    /\ LET l == limitedLoadFiles(files, <<>>)
       IN  IF l.err
             THEN /\ pc' = "failed"
                  /\ serr' = [kind |-> "read file"]
                  /\ messages' = l.messages
                  /\ init' = init
             ELSE /\ pc' = "top"
                  /\ messages' = IF Len(prompt) > 0
                                   THEN add(l.messages, "System", prompt)
                                   ELSE l.messages
                  /\ init' = (Len(prompt) > 0)
                  /\ serr' = serr
    /\ UNCHANGED <<prompt, print, files, inflight, echoed, prompts, reads, turns,
                   dispatched, inputLog, retryVars, limiterVars, notLimited>>

\* `if init { if err := rpm.Wait(...)`, the choice of the model and the
\* first lines of retry, src/chat.go:86-96, 201-204
LimitedDispatch ==
    /\ pc = "top"
    /\ init
    /\ turns < MaxTurns
    /\ \E admitted \in BOOLEAN :
         IF admitted
           THEN /\ waits' = waits + 1
                /\ maxTries' = SessionMaxTries
                /\ dt' = SessionDelay
                /\ tries' = 0
                /\ slept' = 0
                /\ sleeps' = <<>>
                /\ calls' = 0
                /\ ret' = NoRet
                /\ outcome' = NoRet
                /\ turns' = turns + 1
                /\ dispatched' = messages
                /\ pc' = "call"
                /\ serr' = serr
           ELSE /\ pc' = "failed"
                /\ serr' = [kind |-> "request limiter failed"]
                /\ UNCHANGED <<waits, retryVars, turns, dispatched>>
    /\ UNCHANGED <<prompt, print, files, messages, init, inflight, echoed,
                   prompts, reads, inputLog, completions, notLimited>>

\* retry calls f: complete(c, model, ...) starts, src/chat.go:97, 206
LimitedStartAttempt ==
    /\ callsNext(pc)
    /\ completions' = completions + 1
    /\ inflight' = inflight + 1
    /\ calls' = calls + 1
    /\ pc' = "inflight"
    /\ UNCHANGED <<prompt, print, files, messages, init, serr, echoed, prompts,
                   reads, turns, dispatched, inputLog, maxTries, tries, dt,
                   slept, sleeps, ret, outcome, waits, notLimited>>

\* complete returns and retry handles the result, src/chat.go:206-216; when
\* retry gives up Streaming returns its error, src/chat.go:99-101
LimitedFinishAttempt ==
    /\ pc = "inflight"
    /\ inflight' = inflight - 1
    /\ \E o \in LimitedOutcomes :
         /\ outcome' = o
         /\ IF attemptFailed(o)
           THEN /\ tries' = tries + 1
                /\ IF retryGivesUp(tries + 1, maxTries)
                     THEN /\ ret' = retryError(o.err, tries + 1, slept)
                          /\ serr' = [kind |-> "can't complete"]
                          /\ pc' = "failed"
                     ELSE /\ ret' = ret
                          /\ serr' = serr
                          /\ pc' = "sleep"
           ELSE /\ tries' = tries
                /\ ret' = retryOk(o)
                /\ serr' = serr
                /\ pc' = "switch"
    /\ UNCHANGED <<prompt, print, files, messages, init, echoed, prompts,
                   reads, turns, dispatched, inputLog, maxTries, dt,
                   slept, sleeps, calls, limiterVars, notLimited>>

\* the switch on the finish reason, then `init = true; fmt.Print("> ")`,
\* src/chat.go:102-115
LimitedSwitch ==
    /\ pc = "switch"
    /\ LET r == ret.value
           act == limitedFinishAction(r.FinishReason)
       IN  IF act = "fail"
             THEN /\ serr' = [kind |-> "bad finish reason"]
                  /\ pc' = "failed"
                  /\ UNCHANGED <<messages, init, prompts, retryVars>>
             ELSE /\ messages' = add(messages, "Assistant",
                                     IF act = "appendMarked"
                                       THEN r.Content \o limitedTruncationMsg
                                       ELSE r.Content)
                  /\ init' = TRUE
                  /\ prompts' = prompts + 1
                  /\ pc' = "read"
                  /\ serr' = serr
                  /\ maxTries' = 0 /\ tries' = 0 /\ dt' = 0 /\ slept' = 0
                  /\ sleeps' = <<>> /\ calls' = 0
                  /\ UNCHANGED <<ret, outcome>>
    /\ UNCHANGED <<prompt, print, files, inflight, echoed, reads, turns,
                   dispatched, inputLog, limiterVars, notLimited>>

\* SkipDispatch, Sleep and Read are the loop head with init false
\* (src/chat.go:86, 114-115), retry's sleep (src/chat.go:212-213) and the
\* reading of a line (src/chat.go:116-128), whose text is that of part_004
LimitedNext ==
    \/ LimitedSetup
    \/ LimitedDispatch
    \/ SkipDispatch
    \/ LimitedStartAttempt
    \/ LimitedFinishAttempt
    \/ Sleep
    \/ LimitedSwitch
    \/ Read

SpecLimited == LimitedInit /\ [][LimitedNext]_vars

----------------------------------------------------------------------------
(* Claims about the rate-limited session loop, checked under SpecLimited *)

\* C21: every invocation of complete, each retry attempt included, is
\* preceded by its own successful rpm.Wait, and when Wait fails the session
\* ends with an error without calling the backend.
C21_EveryCallAdmitted ==
    /\ completions <= waits
    /\ (pc = "failed" /\ serr.kind = "request limiter failed") =>
          (inflight = 0 /\ completions <= waits)

----------------------------------------------------------------------------
(* TokenEstimate of the provider backends: claudeInterface                  *)
(* (src/unnamed/part_000:40-64) and the two versions of gpt4interface       *)
(* (src/unnamed/part_002:37-90, src/unnamed/part_001:135-190).  A content    *)
(* of w words counts as w tokens, a role name as one token.                 *)

\* the Role constants of part_004:36-41; "Other" is any other value of Role
KnownRoles == {"System", "User", "Assistant"}
Roles == KnownRoles \cup {"Other"}

EstimateKinds == {"claude", "gpt4", "gpt4modes"}

EstimateOk(n) == [kind |-> "ok", n |-> n]
EstimateErr(e) == [kind |-> "error", n |-> 0, err |-> e]

\* mutant: an unknown role is written like a user's
roleKnown_lenient(r) ==
    TRUE

\* the `default:` branches of the switches on m.Role, part_000:58-59,
\* part_002:103-104, part_001:182-183
roleKnown(r) ==
    r \in KnownRoles

\* claudePrompt, part_000:48-64, as the number of words of the prompt: the
\* word "Human:" or "Assistant:" and the words of the content for every
\* message, and the final "Assistant:"
RECURSIVE claudePromptWords(_, _)
claudePromptWords(msgs, n) ==
    IF msgs = <<>> THEN EstimateOk(n + 1)
    ELSE IF ~roleKnown(Head(msgs).Role) THEN EstimateErr("unknown role")
    ELSE claudePromptWords(Tail(msgs), n + 1 + Head(msgs).words)

\* claudeInterface.TokenEstimate, part_000:40-46
claudeTokenEstimate(msgs) ==
    LET p == claudePromptWords(msgs, 0)
    IN  IF p.kind = "error" THEN p ELSE EstimateOk((4 * p.n) \div 3)

\* openaiMessages, part_002:92-112: the first unknown role is an error
RECURSIVE openaiMessagesOk(_)
openaiMessagesOk(msgs) ==
    IF msgs = <<>> THEN TRUE
    ELSE IF ~roleKnown(Head(msgs).Role) THEN FALSE
    ELSE openaiMessagesOk(Tail(msgs))

\* the loop of numTokensFromMessages for "gpt-4-0613", part_002:78-89:
\* tokensPerMessage = 3, the content, the role, the empty name
RECURSIVE gpt4Tokens(_, _)
gpt4Tokens(msgs, n) ==
    IF msgs = <<>> THEN n + 3
    ELSE gpt4Tokens(Tail(msgs), n + 3 + Head(msgs).words + 1)

\* gpt4interface.TokenEstimate, part_002:37-47, with numTokensFromMessages,
\* part_002:49-90
gpt4TokenEstimate(msgs, enc) ==
    IF ~openaiMessagesOk(msgs) THEN EstimateErr("unknown role")
    ELSE IF ~enc THEN EstimateErr("encoding for model")
    ELSE EstimateOk(gpt4Tokens(msgs, 0))

\* the loop of numTokensFromMessages of part_001:170-189: the role is
\* examined inside the loop
RECURSIVE gpt4modesTokens(_, _)
gpt4modesTokens(msgs, n) ==
    IF msgs = <<>> THEN EstimateOk(n + 3)
    ELSE IF ~roleKnown(Head(msgs).Role) THEN EstimateErr("unknown role")
    ELSE gpt4modesTokens(Tail(msgs), n + 3 + Head(msgs).words + 1)

\* gpt4interface.TokenEstimate, part_001:135-141, with numTokensFromMessages,
\* part_001:143-190: the encoding is loaded before any message is examined
gpt4modesTokenEstimate(msgs, enc) ==
    IF ~enc THEN EstimateErr("encoding for model")
    ELSE gpt4modesTokens(msgs, 0)

EstimateMsgs ==
    UNION {[1..n -> [Role : Roles, words : 0..1]] : n \in 0..MaxMsgs}

EstimateInit ==
    /\ ekind \in EstimateKinds
    /\ emsgs \in EstimateMsgs
    /\ encOK \in BOOLEAN
    /\ eret = NoRet
    /\ RetryIdle
    /\ OpIdle
    /\ MultiIdle
    /\ BackendIdle
    /\ SessionIdle
    /\ LimiterIdle
    /\ AttemptIdle

\* i.TokenEstimate(messages)
EstimateCall ==
    /\ eret = NoRet
    /\ eret' = CASE ekind = "claude" -> claudeTokenEstimate(emsgs)
                 [] ekind = "gpt4" -> gpt4TokenEstimate(emsgs, encOK)
                 [] OTHER -> gpt4modesTokenEstimate(emsgs, encOK)
    /\ UNCHANGED <<ekind, emsgs, encOK, retryVars, opVars, multiVars,
                   backendVars, sessVars, limiterVars, attemptVars>>

SpecEstimate == EstimateInit /\ [][EstimateCall]_vars

----------------------------------------------------------------------------
(* Claims about TokenEstimate, checked under SpecEstimate *)

\* some message of the history carries a role outside System, User, Assistant
HasUnknownRole ==
    \E i \in 1..Len(emsgs) : emsgs[i].Role \notin {"System", "User", "Assistant"}

\* C24 as stated: for every backend and history TokenEstimate fails with the
\* unknown-role error if any message carries a role outside System, User,
\* Assistant, and does not fail on role grounds otherwise.
C24_Original ==
    eret # NoRet =>
        /\ HasUnknownRole => (eret.kind = "error" /\ eret.err = "unknown role")
        /\ ~HasUnknownRole => (eret.kind = "ok" \/ eret.err # "unknown role")

\* C24 amended: TokenEstimate fails if any message carries a role outside
\* System, User, Assistant; the error is the unknown-role error, except in
\* the OpenAI-style backend that loads the token encoding first, where a
\* failure to load the encoding is returned instead; when every role is
\* recognized it does not fail on role grounds (it fails only when the
\* encoding cannot be loaded).
C24_UnknownRoleFails ==
    eret # NoRet =>
        /\ HasUnknownRole =>
              /\ eret.kind = "error"
              /\ eret.err = IF ekind = "gpt4modes" /\ ~encOK
                              THEN "encoding for model"
                              ELSE "unknown role"
        /\ ~HasUnknownRole =>
              (eret.kind = "error") = (ekind # "claude" /\ ~encOK)
        /\ (~HasUnknownRole /\ eret.kind = "error") =>
              eret.err = "encoding for model"

\* an unknown role after two recognized ones is rejected
C24_Witness ==
    /\ eret # NoRet
    /\ Len(emsgs) = 3
    /\ emsgs[1].Role = "System"
    /\ emsgs[2].Role = "User"
    /\ emsgs[3].Role = "Other"
    /\ encOK
    /\ eret = EstimateErr("unknown role")

----------------------------------------------------------------------------
(* Claims about successive calls on the multiplexer, checked under          *)
(* SpecAttempts                                                             *)

\* C27: token estimates are never cached: every Streaming call on the
\* multiplexer, every retry attempt included, first calls
\* first.TokenEstimate on the history passed to that call, before any
\* backend's Streaming, and the backend it chooses is the one the estimate
\* of that history selects, whatever the previous call was given.
C27_FreshEstimate ==
    mret # NoRet =>
        /\ Head(mret.log) = <<"TokenEstimate", "first">>
        /\ \A k \in 1..Len(mret.log) :
              mret.log[k][1] = "Streaming" => k = Len(mret.log)
        /\ hist["first"] = EstErr =>
              (mret.kind = "error" /\ Len(mret.log) = 1)
        /\ (hist["first"] # EstErr /\ hist["first"] + 1000 <= mfirst.max) =>
              (mret.kind = "ok" /\ mret.target = "first")
        /\ (hist["first"] # EstErr /\ hist["first"] + 1000 > mfirst.max) =>
              IF hist["second"] = EstErr
                THEN mret.kind = "error"
                ELSE mret.kind = "ok" /\ mret.target = "second"

\* the history grew between two calls: the earlier call went to first, the
\* later one goes to second
C27_Witness ==
    /\ mprev # NoRet
    /\ mprev.kind = "ok"
    /\ mprev.target = "first"
    /\ mret # NoRet
    /\ mret.kind = "ok"
    /\ mret.target = "second"
    /\ hist["first"] + 1000 > mfirst.max

----------------------------------------------------------------------------
(* Termination of the session loop, checked under SpecFinite *)

Returned == pc \in {"closed", "failed"}

\* the steps one dispatch can still take: three per attempt that is left
\* (call, in flight, sleep) and the switch on the finish reason
TurnMeasure ==
    CASE pc = "setup" -> 3 * SessionMaxTries + 5
      [] pc = "top" -> 3 * SessionMaxTries + 4
      [] pc = "call" -> 3 * (maxTries - tries) + 1
      [] pc = "inflight" -> 3 * (maxTries - tries)
      [] pc = "sleep" -> 3 * (maxTries - tries) + 2
      [] pc = "switch" -> 2
      [] pc = "read" -> 1
      [] OTHER -> 0

\* a measure of what the session can still do: the reads the stream still
\* allows, each followed by at most one dispatch
Measure ==
    IF Returned THEN 0
    ELSE (MaxReads - reads) * (3 * SessionMaxTries + 6) + TurnMeasure

\* C26: on a finite input stream and with backend calls that return, the
\* session loop terminates: it eventually returns, normally on end of input
\* or with an error (retries exhausted, bad finish reason, read failure or a
\* prompt file that cannot be read).  Every step strictly decreases a
\* measure that is positive until the session has returned, and a session
\* that returned normally read the end of its input.
C26_Terminates ==
    /\ <>Returned
    /\ [][Measure' < Measure]_vars
    /\ [](~Returned => (Measure > 0 /\ TurnMeasure > 0))
    /\ [](pc = "closed" => (serr = NoRet /\ Last(inputLog).err = "EOF"))
    /\ [](pc = "failed" =>
            serr.kind \in {"read file", "can't complete", "bad finish reason",
                           "can't read from stdin"})

\* a session that answered two turns and returned at the end of its input
C26_Witness ==
    /\ pc = "closed"
    /\ turns = 2
    /\ calls = 0
    /\ Len(sleeps) = 0
    /\ Last(inputLog).err = "EOF"
    /\ Last(messages).Role = "Assistant"

----------------------------------------------------------------------------
(* Further claims about the provider backends, checked under SpecBackend *)

\* C32: the finish reason the OpenAI-style backend returns is that of the
\* last event received before the end of the stream, whatever earlier
\* events carried; a stream with no event, or whose last event has an empty
\* finish reason, is reported as Unknown, on which the session's switch
\* returns an error.
C32_LastFinishReason ==
    (bkind = "gpt4" /\ bpc = "done" /\ bret.kind = "ok") =>
        /\ received = 0 => bret.FinishReason = "Unknown"
        /\ received > 0 =>
              bret.FinishReason =
                  CASE lastEvent.finish = "stop" -> "Stop"
                    [] lastEvent.finish = "length" -> "Length"
                    [] OTHER -> "Unknown"
        /\ (received = 0 \/ lastEvent.finish = "") =>
              finishAction(bret.FinishReason) = "fail"

\* two chunks, the last one with an empty finish reason
C32_Witness ==
    /\ bkind = "gpt4"
    /\ bpc = "done"
    /\ received = 2
    /\ lastEvent.type = "chunk"
    /\ lastEvent.finish = ""
    /\ bret.kind = "ok"
    /\ bret.Content = <<"a", " ", "a", "\n">>
    /\ bret.FinishReason = "Unknown"

\* C33: the text the Claude backend writes to the sink never begins with
\* white space, for every sequence of chunks, a first chunk that is empty or
\* all white space included.
C33_NoLeadingSpace ==
    bkind = "claude" => (sink = <<>> \/ ~IsSpace(Head(sink)))

----------------------------------------------------------------------------
(* The backend pairing of the example, src/example/main.go:45-67: the      *)
(* GPT-4 backend of src/unnamed/part_001 as first, Claude 2 as second      *)

\* `_ GPT4Mode = iota; GPT4ModeDefault; GPT4ModeTurbo`, part_001:98-102
GPT4ModeDefault == 1
GPT4ModeTurbo == 2

\* the values of GPT4Mode tried: the zero value, the two modes, one more
GPT4Modes == 0..3

\* gpt4interface.MaxTokens, part_001:123-132 (it panics on any other mode,
\* which GPT4 never lets through)
gpt4MaxTokens(m) ==
    IF m = GPT4ModeDefault THEN 8 * 1024 ELSE 128 * 1024

\* GPT4, part_001:104-112
GPT4(m) ==
    IF m \in {GPT4ModeDefault, GPT4ModeTurbo}
      THEN [kind |-> "ok", iface |-> Leaf("first", gpt4MaxTokens(m))]
      ELSE [kind |-> "error"]

\* Claude2 and claudeInterface.MaxTokens, part_000:18-20, 30-32
Claude2 == Leaf("second", 100 * 1024)

ExampleInit ==
    /\ mfirst = NoRet
    /\ msecond = NoRet
    /\ multi = NoRet
    /\ hist = <<>>
    /\ mret = NoRet
    /\ mpc = "new"
    /\ mprobe = NoRet
    /\ leaves = <<>>
    /\ nesting = "none"
    /\ inner = NoRet
    /\ RetryIdle
    /\ OpIdle
    /\ BackendIdle
    /\ SessionIdle
    /\ LimiterIdle
    /\ EstimateIdle
    /\ AttemptIdle

\* LoadModel, main.go:45-67, for any mode given to GPT4 (the example gives
\* GPT4ModeTurbo): llm1 = GPT4(m), llm2 = Claude2, then the multiplexer
LoadModel ==
    /\ mpc = "new"
    /\ \E m \in GPT4Modes :
         LET llm1 == GPT4(m)
         IN  IF llm1.kind = "error"
               THEN /\ multi' = [kind |-> "error"]
                    /\ mpc' = "rejected"
                    /\ UNCHANGED <<mfirst, msecond>>
               ELSE /\ mfirst' = llm1.iface
                    /\ msecond' = Claude2
                    /\ multi' = NewMultiInterface(llm1.iface, Claude2)
                    /\ mpc' = IF multi'.kind = "ok" THEN "ready" ELSE "rejected"
    /\ UNCHANGED <<hist, mret, mprobe, leaves, nesting, inner, notMulti>>

ExampleNext ==
    \/ LoadModel
    \/ MultiStreaming
    \/ MultiMaxTokens
    \/ MultiTokenEstimate

SpecExample == ExampleInit /\ [][ExampleNext]_vars

----------------------------------------------------------------------------
(* Claims about the example's pairing, checked under SpecExample *)

\* C34: for every GPT-4 mode that the GPT4 constructor accepts (default and
\* turbo), constructing the multiplexer with the GPT-4 backend as first and
\* the Claude 2 backend as second succeeds.
C34_PairingSucceeds ==
    (mpc # "new" /\ mfirst # NoRet) =>
        (multi.kind = "ok" /\ mpc = "ready")

====
